---- MODULE Spec2Model ----
(***************************************************************************)
(* tuned-viewer: the include resolver (resolver.py) and the profile merger *)
(* (merger.py) over the document model of parser.py.                       *)
(*                                                                         *)
(* Strings are TLA+ strings: str.startswith and slicing are SubSeq, + is    *)
(* \o.  A dict or OrderedDict is the sequence of its <<key, value>> items   *)
(* in insertion order, with pairwise distinct keys.                        *)
(***************************************************************************)
EXTENDS Integers, Sequences, FiniteSets, TLC

VARIABLES
    \* ---- IncludeResolver.resolve_hierarchy -------------------------------
    pc,          \* "idle" | "running" | "returned" | "raised"
    root,        \* the profile_name resolve_hierarchy was called with
    files,       \* what locator.find_profile + parser.parse_file gave so far:
                 \* name -> [found, includes]
    externals,   \* what _parse_external_include found so far:
                 \* path -> TRUE (a document was read) or FALSE (None)
    processed,   \* processed_profiles (set of names)
    chain,       \* profile_chain (sequence of documents)
    stack,       \* active _resolve_recursive frames, outermost first
    call,        \* <<name>> when _resolve_recursive was just entered with name, else <<>>
    error,       \* the exception that left resolve_hierarchy, or NoError
    locateCount, \* number of locator.find_profile calls per name
    \* ---- ProfileMerger.merge_profiles -------------------------------------
    profiles,    \* the argument list, as far as reduce has consumed it
    acc,         \* reduce's accumulator
    merged,      \* the value merge_profiles returns for `profiles`
    inputs,      \* the documents of `profiles` as they are after the call
    owners,      \* for each unit name of acc (and of merged): 0 when the unit
                 \* object was created by the merger, k when it is the very
                 \* object held by the k-th document of `profiles`
    \* ---- cli.main and IncludeResolver.validate_hierarchy -------------------
    command,     \* <<>> before main has parsed the arguments, else <<invocation>>
    validation,  \* <<>>, or <<the report validate_hierarchy returned>>
    exitCode,    \* <<>> while main runs, else <<the value main returned>>
    \* ---- ProfileParser.parse_file ------------------------------------------
    fileText,    \* the sections of the file parse_file last read, in file order
    parsed       \* <<>>, or <<the profile parse_file returned for `fileText`>>

resolverVars == <<pc, root, files, externals, processed, chain, stack, call, error, locateCount>>
mergerVars == <<profiles, acc, merged, inputs, owners>>
cliVars == <<command, validation, exitCode>>
parserVars == <<fileText, parsed>>
vars == <<resolverVars, externals, mergerVars, cliVars, parserVars>>

(***************************************************************************)
(* Bounds                                                                  *)
(***************************************************************************)
MaxIncludes == 2   \* include entries per profile
MaxEntries == 4    \* include entries read in one resolve_hierarchy call
MaxDocs == 3       \* documents handed to merge_profiles
MaxSections == 3   \* section headers in one profile file

(***************************************************************************)
(* Generic helpers                                                         *)
(***************************************************************************)
Range(s) == {s[i] : i \in 1..Len(s)}

SeqsUpTo(S, n) == UNION {[1..k -> S] : k \in 0..n}

\* list.index(x): position of the first occurrence
IndexOf(s, x) == CHOOSE i \in 1..Len(s) : s[i] = x /\ \A j \in 1..(i - 1) : s[j] # x

\* str.startswith(prefix)
StartsWith(s, prefix) == Len(s) >= Len(prefix) /\ SubSeq(s, 1, Len(prefix)) = prefix

(***************************************************************************)
(* Resolver                                                                *)
(***************************************************************************)
NoError == [kind |-> "none"]

ProfileNames == {"a", "b", "c", "d"}
ExternalPaths == {"/etc/x.conf"}
IncludeEntries == ProfileNames \cup ExternalPaths

\* ProfileLocator.directories when no custom directories are given
directories == <<"/etc/tuned/profiles", "/usr/lib/tuned/profiles", "/run/tuned/profiles">>

\* entries of `files` read so far
EntriesRead == LET RECURSIVE Sum(_)
                   Sum(S) == IF S = {} THEN 0
                             ELSE LET n == CHOOSE n \in S : TRUE
                                  IN Len(files[n].includes) + Sum(S \ {n})
               IN Sum(DOMAIN files)

\* include_path of the innermost active call
IncludePath == [i \in 1..Len(stack) |-> stack[i].name]

\* TunedProfile as far as the resolver reads it
Profile(name, includes) == [name |-> name, includes |-> includes, external |-> FALSE]

\* the synthetic profile of _parse_external_include
ExternalProfile(profile_name) ==
    [name |-> profile_name \o "_external", includes |-> <<>>, external |-> TRUE]

InitResolver ==
    /\ pc = "idle"
    /\ root = ""
    /\ files = <<>>
    /\ externals = <<>>
    /\ processed = {}
    /\ chain = <<>>
    /\ stack = <<>>
    /\ call = <<>>
    /\ error = NoError
    /\ locateCount = [n \in ProfileNames |-> 0]

\* resolve_hierarchy(profile_name): fresh processed set and chain, first call
ResolveHierarchy ==
    /\ pc = "idle"
    /\ \E profile_name \in ProfileNames :
        /\ root' = profile_name
        /\ call' = <<profile_name>>
    /\ pc' = "running"
    /\ processed' = {}
    /\ chain' = <<>>
    /\ UNCHANGED <<files, stack, error, locateCount, externals, mergerVars, cliVars, parserVars>>

OnIncludePathAndNew(profile_name) ==
    profile_name \in Range(IncludePath) /\ profile_name \notin processed

\* line 52: profile_name in include_path
OnIncludePath(profile_name) == profile_name \in Range(IncludePath)

NeverProcessed(profile_name) == FALSE

\* line 57: profile_name in processed
IsProcessed(profile_name) == profile_name \in processed

CycleOfWholePath(include_path, profile_name) == include_path \o <<profile_name>>

\* line 53: include_path[include_path.index(profile_name):] + [profile_name]
CycleOf(include_path, profile_name) ==
    SubSeq(include_path, IndexOf(include_path, profile_name), Len(include_path))
        \o <<profile_name>>

\* _resolve_recursive, lines 52-54: profile_name is on include_path
RaiseCircularInclude ==
    /\ pc = "running" /\ call # <<>>
    /\ OnIncludePath(call[1])
    /\ error' = [kind |-> "CircularInclude", cycle |-> CycleOf(IncludePath, call[1])]
    /\ pc' = "raised"
    /\ UNCHANGED <<root, files, processed, chain, stack, call, locateCount, externals, mergerVars, cliVars, parserVars>>

ExpandProcessed ==
    /\ pc = "running" /\ call # <<>>
    /\ ~OnIncludePath(call[1])
    /\ IsProcessed(call[1])
    /\ stack' = Append(stack, [name |-> call[1], includes |-> files[call[1]].includes,
                               i |-> 1])
    /\ locateCount' = [locateCount EXCEPT ![call[1]] = @ + 1]
    /\ call' = <<>>
    /\ UNCHANGED <<pc, root, files, processed, chain, error, externals, mergerVars, cliVars, parserVars>>

\* _resolve_recursive, lines 57-58: already processed, return
SkipProcessed ==
    /\ pc = "running" /\ call # <<>>
    /\ ~OnIncludePath(call[1])
    /\ IsProcessed(call[1])
    /\ call' = <<>>
    /\ UNCHANGED <<pc, root, files, processed, chain, stack, error, locateCount, externals, mergerVars, cliVars, parserVars>>

\* what find_profile may answer for a name: the file system does not change
\* during a call, so a name already looked up answers as before
LocateResults(name) ==
    IF name \in DOMAIN files THEN {files[name]}
    ELSE {[found |-> FALSE, includes |-> <<>>]}
         \cup {[found |-> TRUE, includes |-> inc] :
                 inc \in {s \in SeqsUpTo(IncludeEntries, MaxIncludes) :
                            EntriesRead + Len(s) <= MaxEntries}}

ProfileNotFoundNamingRoot(profile_name) ==
    [kind |-> "ProfileNotFound", name |-> root, searched_dirs |-> directories]

\* lines 63-66: the error names the profile and the locator's directories
ProfileNotFoundError(profile_name) ==
    [kind |-> "ProfileNotFound", name |-> profile_name, searched_dirs |-> directories]

RecordProfileNotFound ==
    /\ pc = "running" /\ call # <<>>
    /\ ~OnIncludePath(call[1])
    /\ ~IsProcessed(call[1])
    /\ \E r \in LocateResults(call[1]) :
        /\ ~r.found
        /\ files' = (call[1] :> r) @@ files
    /\ locateCount' = [locateCount EXCEPT ![call[1]] = @ + 1]
    /\ error' = ProfileNotFoundError(call[1])
    /\ call' = <<>>
    /\ UNCHANGED <<pc, root, processed, chain, stack, externals, mergerVars, cliVars, parserVars>>

\* _resolve_recursive, lines 61-66: find_profile returned None
RaiseProfileNotFound ==
    /\ pc = "running" /\ call # <<>>
    /\ ~OnIncludePath(call[1])
    /\ ~IsProcessed(call[1])
    /\ \E r \in LocateResults(call[1]) :
        /\ ~r.found
        /\ files' = (call[1] :> r) @@ files
    /\ locateCount' = [locateCount EXCEPT ![call[1]] = @ + 1]
    /\ error' = ProfileNotFoundError(call[1])
    /\ pc' = "raised"
    /\ UNCHANGED <<root, processed, chain, stack, call, externals, mergerVars, cliVars, parserVars>>

\* the value resolve_hierarchy hands to its caller (line 41): the chain once
\* the outermost call has returned, nothing when an exception left it
ReturnValue == IF pc = "returned" THEN <<chain>> ELSE <<>>

\* _resolve_recursive, lines 61-72: located, parsed, marked processed
ParseProfile ==
    /\ pc = "running" /\ call # <<>>
    /\ ~OnIncludePath(call[1])
    /\ ~IsProcessed(call[1])
    /\ \E r \in LocateResults(call[1]) :
        /\ r.found
        /\ files' = (call[1] :> r) @@ files
        /\ stack' = Append(stack, [name |-> call[1], includes |-> r.includes, i |-> 1])
    /\ locateCount' = [locateCount EXCEPT ![call[1]] = @ + 1]
    /\ processed' = processed \cup {call[1]}
    /\ call' = <<>>
    /\ UNCHANGED <<pc, root, chain, error, externals, mergerVars, cliVars, parserVars>>

Top == stack[Len(stack)]

AdvanceTop == [stack EXCEPT ![Len(stack)].i = @ + 1]

\* what _parse_external_include may find at a path: a file that is missing,
\* unreadable or unparsable gives None (FALSE); the file system does not
\* change during a call
ExternalResults(include_path) ==
    IF include_path \in DOMAIN externals THEN {externals[include_path]} ELSE BOOLEAN

ExternalIncludeRequired ==
    /\ pc = "running" /\ call = <<>> /\ stack # <<>>
    /\ Top.i <= Len(Top.includes)
    /\ StartsWith(Top.includes[Top.i], "/")
    /\ \E readable \in ExternalResults(Top.includes[Top.i]) :
        /\ externals' = (Top.includes[Top.i] :> readable) @@ externals
        /\ chain' = IF readable THEN Append(chain, ExternalProfile(Top.name)) ELSE chain
        /\ pc' = IF readable THEN pc ELSE "raised"
        /\ error' = IF readable THEN error ELSE ProfileNotFoundError(Top.includes[Top.i])
    /\ stack' = AdvanceTop
    /\ UNCHANGED <<root, files, processed, call, locateCount, mergerVars, cliVars, parserVars>>

\* _resolve_recursive, lines 75-78: an include that starts with "/"
ExternalInclude ==
    /\ pc = "running" /\ call = <<>> /\ stack # <<>>
    /\ Top.i <= Len(Top.includes)
    /\ StartsWith(Top.includes[Top.i], "/")
    /\ \E readable \in ExternalResults(Top.includes[Top.i]) :
        /\ externals' = (Top.includes[Top.i] :> readable) @@ externals
        /\ chain' = IF readable THEN Append(chain, ExternalProfile(Top.name)) ELSE chain
    /\ stack' = AdvanceTop
    /\ UNCHANGED <<pc, root, files, processed, call, error, locateCount, mergerVars, cliVars, parserVars>>

ProfileIncludeAgain ==
    /\ pc = "running" /\ call = <<>> /\ stack # <<>>
    /\ Top.i <= Len(Top.includes)
    /\ ~StartsWith(Top.includes[Top.i], "/")
    /\ call' = <<Top.includes[Top.i]>>
    /\ UNCHANGED <<pc, root, files, processed, chain, stack, error, locateCount, externals, mergerVars, cliVars, parserVars>>

\* _resolve_recursive, lines 79-81: a bare name, recursive call
ProfileInclude ==
    /\ pc = "running" /\ call = <<>> /\ stack # <<>>
    /\ Top.i <= Len(Top.includes)
    /\ ~StartsWith(Top.includes[Top.i], "/")
    /\ call' = <<Top.includes[Top.i]>>
    /\ stack' = AdvanceTop
    /\ UNCHANGED <<pc, root, files, processed, chain, error, locateCount, externals, mergerVars, cliVars, parserVars>>

\* _resolve_recursive, line 84, and the return of resolve_hierarchy (line 41)
AppendProfile ==
    /\ pc = "running" /\ call = <<>> /\ stack # <<>>
    /\ Top.i > Len(Top.includes)
    /\ chain' = Append(chain, Profile(Top.name, Top.includes))
    /\ stack' = SubSeq(stack, 1, Len(stack) - 1)
    /\ pc' = IF Len(stack) = 1 THEN "returned" ELSE pc
    /\ UNCHANGED <<root, files, processed, call, error, locateCount, externals, mergerVars, cliVars, parserVars>>

NextResolver ==
    \/ ResolveHierarchy
    \/ RaiseCircularInclude
    \/ SkipProcessed
    \/ RaiseProfileNotFound
    \/ ParseProfile
    \/ ExternalInclude
    \/ ProfileInclude
    \/ AppendProfile

(***************************************************************************)
(* Document model (parser.py)                                              *)
(***************************************************************************)
\* ---- dict / OrderedDict: a sequence of <<key, value>> pairs --------------
Keys(d) == {d[i][1] : i \in 1..Len(d)}

\* key in d
Has(d, key) == key \in Keys(d)

KeyIndex(d, key) == CHOOSE i \in 1..Len(d) : d[i][1] = key

\* d.get(key, default)
Get(d, key, default) == IF Has(d, key) THEN d[KeyIndex(d, key)][2] ELSE default

\* d[key] = value: an existing key keeps its position, a new one goes last
SetItem(d, key, value) ==
    IF Has(d, key) THEN [d EXCEPT ![KeyIndex(d, key)] = <<key, value>>]
    ELSE Append(d, <<key, value>>)

\* d.pop(key, None)
Pop(d, key) == SelectSeq(d, LAMBDA p : p[1] # key)

\* d.move_to_end(key, last=False)
MoveToFront(d, key) == <<d[KeyIndex(d, key)]>> \o Pop(d, key)

\* d.update(e)
RECURSIVE Update(_, _)
Update(d, e) ==
    IF e = <<>> THEN d ELSE Update(SetItem(d, e[1][1], e[1][2]), Tail(e))

\* ---- str.lower() and int(str) --------------------------------------------
UpperCase == "ABCDEFGHIJKLMNOPQRSTUVWXYZ"
LowerCase == "abcdefghijklmnopqrstuvwxyz"

LowerChar(c) ==
    IF \E i \in 1..Len(UpperCase) : SubSeq(UpperCase, i, i) = c
    THEN LET i == CHOOSE i \in 1..Len(UpperCase) : SubSeq(UpperCase, i, i) = c
         IN SubSeq(LowerCase, i, i)
    ELSE c

RECURSIVE Lower(_)
Lower(str) ==
    IF str = "" THEN ""
    ELSE LowerChar(SubSeq(str, 1, 1)) \o Lower(SubSeq(str, 2, Len(str)))

Digits == "0123456789"

IsDigit(c) == \E i \in 1..Len(Digits) : SubSeq(Digits, i, i) = c

DigitValue(c) == (CHOOSE i \in 1..Len(Digits) : SubSeq(Digits, i, i) = c) - 1

RECURSIVE DigitsValue(_)
DigitsValue(str) ==
    IF str = "" THEN 0
    ELSE 10 * DigitsValue(SubSeq(str, 1, Len(str) - 1))
         + DigitValue(SubSeq(str, Len(str), Len(str)))

HasSign(str) == Len(str) >= 1 /\ SubSeq(str, 1, 1) \in {"+", "-"}

Unsigned(str) == IF HasSign(str) THEN SubSeq(str, 2, Len(str)) ELSE str

\* int(str) succeeds: an optional sign and decimal digits
IsIntLiteral(str) ==
    /\ Len(Unsigned(str)) >= 1
    /\ \A i \in 1..Len(Unsigned(str)) : IsDigit(SubSeq(Unsigned(str), i, i))

IntOf(str) ==
    IF HasSign(str) /\ SubSeq(str, 1, 1) = "-"
    THEN 0 - DigitsValue(Unsigned(str)) ELSE DigitsValue(Unsigned(str))

\* the truthy spellings of replace and enabled
Truthy == {"true", "1", "yes"}

\* ---- TunedUnit ------------------------------------------------------------
\* Optional values: <<>> is None, <<v>> is v.
\* TunedUnit._parse_priority
_parse_priority(priority_str) ==
    IF priority_str = <<>> THEN <<>>
    ELSE IF IsIntLiteral(priority_str[1]) THEN <<IntOf(priority_str[1])>> ELSE <<>>

\* options.get(key)
GetOptional(d, key) == IF Has(d, key) THEN <<Get(d, key, "")>> ELSE <<>>

TunedUnitKeepingReplace(name, options) ==
    [name |-> name,
     options |-> options,
     replace |-> Lower(Get(options, "replace", "")) \in Truthy,
     priority |-> _parse_priority(GetOptional(options, "priority")),
     enabled |-> Lower(Get(options, "enabled", "true")) \in Truthy,
     devices |-> Get(options, "devices", "")]

\* TunedUnit.__init__(name, options): replace is popped out of options
TunedUnit(name, options) ==
    LET popped == Pop(options, "replace")
    IN [name |-> name,
        options |-> popped,
        replace |-> Lower(Get(options, "replace", "")) \in Truthy,
        priority |-> _parse_priority(GetOptional(popped, "priority")),
        enabled |-> Lower(Get(popped, "enabled", "true")) \in Truthy,
        devices |-> Get(popped, "devices", "")]

\* ---- TunedProfile ---------------------------------------------------------
\* TunedProfile.__init__(name); units is an OrderedDict keyed by unit name,
\* kept as the sequence of its units
TunedProfile(name) ==
    [name |-> name, variables |-> <<>>, units |-> <<>>, options |-> <<>>,
     includes |-> <<>>]

UnitNames(units) == {units[i].name : i \in 1..Len(units)}

UnitIndex(units, unit_name) == CHOOSE i \in 1..Len(units) : units[i].name = unit_name

\* units.get(unit_name)
GetUnit(units, unit_name) ==
    IF unit_name \in UnitNames(units) THEN <<units[UnitIndex(units, unit_name)]>> ELSE <<>>

\* units[unit_name] = unit
SetUnit(units, unit) ==
    IF unit.name \in UnitNames(units)
    THEN [units EXCEPT ![UnitIndex(units, unit.name)] = unit]
    ELSE Append(units, unit)

\* units.update(other)
RECURSIVE UpdateUnits(_, _)
UpdateUnits(units, other) ==
    IF other = <<>> THEN units ELSE UpdateUnits(SetUnit(units, other[1]), Tail(other))

(***************************************************************************)
(* Merger (merger.py)                                                      *)
(***************************************************************************)
VARIABLES_SECTION == "variables"
SCRIPT_SECTION == "script"
DROP_PREFIX == "drop_"

\* ProfileMerger._copy_unit
_copy_unit(unit) ==
    [TunedUnit(unit.name, unit.options) EXCEPT
        !.replace = unit.replace,
        !.priority = unit.priority,
        !.enabled = unit.enabled,
        !.devices = unit.devices]

\* lines 107-110: the script texts are concatenated
ConcatScript(target_unit, source_unit) ==
    IF target_unit.name = SCRIPT_SECTION /\ Has(source_unit.options, "script")
    THEN [target_unit EXCEPT !.options =
            SetItem(@, "script",
                    Get(target_unit.options, "script", "")
                        \o Get(source_unit.options, "script", ""))]
    ELSE target_unit

\* lines 113-123: one iteration of the loop over source_unit.options
MergeOption(target_name, options, key, value) ==
    IF key = "script" /\ target_name = SCRIPT_SECTION THEN options
    ELSE IF StartsWith(key, DROP_PREFIX)
         THEN Pop(options, SubSeq(key, Len(DROP_PREFIX) + 1, Len(key)))
         ELSE SetItem(options, key, value)

RECURSIVE MergeOptions(_, _, _)
MergeOptions(target_name, options, source_options) ==
    IF source_options = <<>> THEN options
    ELSE MergeOptions(target_name,
                      MergeOption(target_name, options,
                                  source_options[1][1], source_options[1][2]),
                      Tail(source_options))

\* ProfileMerger._merge_unit_options: the value of target_unit afterwards
_merge_unit_options(target_unit, source_unit) ==
    LET scripted == ConcatScript(target_unit, source_unit)
    IN [scripted EXCEPT
        !.options = MergeOptions(target_unit.name, scripted.options, source_unit.options),
        !.priority = IF source_unit.priority # <<>> THEN source_unit.priority ELSE @,
        !.enabled = IF Has(source_unit.options, "enabled")
                    THEN Lower(Get(source_unit.options, "enabled", "")) \in Truthy
                    ELSE @,
        !.devices = IF Has(source_unit.options, "devices")
                    THEN Get(source_unit.options, "devices", "")
                    ELSE @]

CopiesUnitIfAbsent(units, source_unit) == source_unit.name \notin UnitNames(units)

\* line 96: copy the source unit rather than merge into the existing one
CopiesUnit(units, source_unit) ==
    source_unit.replace \/ source_unit.name \notin UnitNames(units)

\* lines 93-102: one iteration of the loop over source.units
MergeUnit(units, source_unit) ==
    IF source_unit.name = VARIABLES_SECTION THEN units
    ELSE IF CopiesUnit(units, source_unit)
         THEN SetUnit(units, _copy_unit(source_unit))
         ELSE [units EXCEPT ![UnitIndex(units, source_unit.name)] =
                    _merge_unit_options(@, source_unit)]

\* ProfileMerger._merge_units: the value of target.units afterwards
RECURSIVE _merge_units(_, _)
_merge_units(units, source_units) ==
    IF source_units = <<>> THEN units
    ELSE _merge_units(MergeUnit(units, source_units[1]), Tail(source_units))

\* lines 82-88: one iteration of the loop over source.variables
MergeVariable(variables, key, value) ==
    IF ~Has(variables, key)
    THEN MoveToFront(SetItem(variables, key, value), key)
    ELSE SetItem(variables, key, value)

RECURSIVE MergeVariableItems(_, _)
MergeVariableItems(variables, items) ==
    IF items = <<>> THEN variables
    ELSE MergeVariableItems(MergeVariable(variables, items[1][1], items[1][2]),
                            Tail(items))

\* lines 76-78: the source has a variables unit with replace set
ClearsVariables(source) ==
    LET variables_unit == GetUnit(source.units, VARIABLES_SECTION)
    IN variables_unit # <<>> /\ variables_unit[1].replace

\* ProfileMerger._merge_variables: the value of target.variables afterwards
_merge_variables(variables, source) ==
    IF source.variables = <<>> THEN variables
    ELSE MergeVariableItems(IF ClearsVariables(source) THEN <<>> ELSE variables,
                            source.variables)

\* line 40: profile_a is taken for the initial accumulator
IsInitial(profile_a) == profile_a.name = "" \/ profile_a.name = "base"

\* ProfileMerger._merge_two
_merge_two(profile_a, profile_b) ==
    IF IsInitial(profile_a)
    THEN [name |-> profile_b.name,
          variables |-> Update(<<>>, profile_b.variables),
          units |-> UpdateUnits(<<>>, profile_b.units),
          options |-> Update(<<>>, profile_b.options),
          includes |-> profile_b.includes]
    ELSE [name |-> profile_a.name,
          variables |-> _merge_variables(profile_a.variables, profile_b),
          units |-> _merge_units([i \in 1..Len(profile_a.units) |->
                                     _copy_unit(profile_a.units[i])],
                                 profile_b.units),
          options |-> Update(profile_a.options, profile_b.options),
          includes |-> profile_a.includes]

FinalNameOfFirst(profile_list) == profile_list[1].name

\* line 33: merged.name = profiles[-1].name
FinalName(profile_list) == profile_list[Len(profile_list)].name

\* reduce(self._merge_two, profiles, TunedProfile("base"))
RECURSIVE Reduce(_, _)
Reduce(profile_list, initial) ==
    IF profile_list = <<>> THEN initial
    ELSE Reduce(Tail(profile_list), _merge_two(initial, profile_list[1]))

merge_profiles_reducing(profile_list) ==
    IF profile_list = <<>> THEN Reduce(profile_list, TunedProfile("base"))
    ELSE [Reduce(profile_list, TunedProfile("base")) EXCEPT
            !.name = FinalName(profile_list)]

\* ProfileMerger.merge_profiles
merge_profiles(profile_list) ==
    IF profile_list = <<>> THEN TunedProfile("empty")
    ELSE [Reduce(profile_list, TunedProfile("base")) EXCEPT
            !.name = FinalName(profile_list)]

\* sum(len(p.units) for p in profiles)
RECURSIVE TotalSections(_)
TotalSections(profile_list) ==
    IF profile_list = <<>> THEN 0
    ELSE Len(profile_list[1].units) + TotalSections(Tail(profile_list))

\* ProfileMerger._count_conflicts
_count_conflicts(profile_list) ==
    LET all_sections == UNION {UnitNames(profile_list[i].units) : i \in 1..Len(profile_list)}
    IN TotalSections(profile_list) - Cardinality(all_sections)

\* ProfileMerger.get_merge_summary
get_merge_summary(profile_list) ==
    IF profile_list = <<>>
    THEN [profiles |-> <<>>, total_sections |-> 0, final_sections |-> <<>>]
    ELSE LET result == merge_profiles(profile_list)
         IN [profiles |-> [i \in 1..Len(profile_list) |-> profile_list[i].name],
             merge_order |-> [i \in 1..Len(profile_list) |-> profile_list[i].name],
             total_input_sections |-> TotalSections(profile_list),
             final_sections |-> [i \in 1..Len(result.units) |-> result.units[i].name],
             final_section_count |-> Len(result.units),
             final_variables |-> [i \in 1..Len(result.variables) |-> result.variables[i][1]],
             final_variable_count |-> Len(result.variables),
             conflicts_resolved |-> _count_conflicts(profile_list)]

\* a unit object the merger created
MergerCreated == 0

\* the unit objects of the value _merge_two returns, when profile_b is the
\* k-th document: line 43 puts profile_b's own unit objects into the result;
\* lines 55-56 and 98 store copies made by _copy_unit, and line 102 changes
\* such a copy in place
UnitOwners(profile_a, profile_b, k) ==
    IF IsInitial(profile_a)
    THEN [unit_name \in UnitNames(profile_b.units) |-> k]
    ELSE [unit_name \in UnitNames(_merge_two(profile_a, profile_b).units) |->
            MergerCreated]

TargetOwnersShared(profile_a_owners) == profile_a_owners

\* lines 53-56: the units the fold step changes in place (line 102) are the
\* copies that _copy_unit made of the accumulator's units
TargetOwners(profile_a_owners) ==
    [unit_name \in DOMAIN profile_a_owners |-> MergerCreated]

\* line 96, else branch: the names of the units of profile_b that are merged
\* into the unit of the same name by _merge_unit_options
FieldMerged(profile_a, profile_b) ==
    IF IsInitial(profile_a) THEN {}
    ELSE {profile_b.units[i].name : i \in
            {j \in 1..Len(profile_b.units) :
                /\ profile_b.units[j].name # VARIABLES_SECTION
                /\ ~CopiesUnit(profile_a.units, profile_b.units[j])}}

\* the documents handed in so far after _merge_two(profile_a, profile_b):
\* a unit object that _merge_unit_options changed is changed in every
\* document that holds it
InputsAfter(documents, profile_a, profile_a_owners, profile_b) ==
    LET result == _merge_two(profile_a, profile_b)
        changed == FieldMerged(profile_a, profile_b)
        Held(k, unit) ==
            /\ unit.name \in changed
            /\ unit.name \in DOMAIN profile_a_owners
            /\ TargetOwners(profile_a_owners)[unit.name] = k
    IN [k \in 1..Len(documents) |->
            [documents[k] EXCEPT !.units =
                [i \in 1..Len(@) |->
                    IF Held(k, @[i])
                    THEN result.units[UnitIndex(result.units, @[i].name)]
                    ELSE @[i]]]]

\* a ProfileMerger before any call: merge_profiles([]) is TunedProfile("empty"),
\* reduce starts from TunedProfile("base")
InitMerger ==
    /\ profiles = <<>>
    /\ acc = TunedProfile("base")
    /\ merged = merge_profiles(<<>>)
    /\ inputs = <<>>
    /\ owners = <<>>

\* the call merge_profiles(profiles + [document]): reduce has folded
\* `profiles` into acc and folds the further document in (line 29), then the
\* name of the last document is set (lines 32-33)
MergeProfiles(document) ==
    /\ Len(profiles) < MaxDocs
    /\ profiles' = Append(profiles, document)
    /\ acc' = _merge_two(acc, document)
    /\ merged' = [acc' EXCEPT !.name = FinalName(profiles')]
    /\ inputs' = Append(InputsAfter(inputs, acc, owners, document), document)
    /\ owners' = UnitOwners(acc, document, Len(profiles'))
    /\ UNCHANGED <<resolverVars, cliVars, parserVars>>

\* the variables hold the accumulator and the return value of the call
MergeProfilesComputed ==
    /\ acc = Reduce(profiles, TunedProfile("base"))
    /\ merged = merge_profiles(profiles)

(***************************************************************************)
(* validate_hierarchy (resolver.py) and the command line (cli.py)          *)
(***************************************************************************)
\* ProfileParser.parse_file raises (unreadable file, no section header, ...):
\* the exception leaves resolve_hierarchy as it is
RaiseParseError ==
    /\ pc = "running" /\ call # <<>>
    /\ ~OnIncludePath(call[1])
    /\ ~IsProcessed(call[1])
    /\ \E r \in LocateResults(call[1]) : r.found
    /\ locateCount' = [locateCount EXCEPT ![call[1]] = @ + 1]
    /\ error' = [kind |-> "Exception"]
    /\ pc' = "raised"
    /\ UNCHANGED <<root, files, processed, chain, stack, call, externals, mergerVars, cliVars, parserVars>>

\* resolve_hierarchy has returned or raised
Resolved == pc \in {"returned", "raised"}

\* lines 153-159
NewValidation ==
    [valid |-> TRUE, errors |-> <<>>, warnings |-> <<>>, profile_count |-> 0,
     profiles |-> <<>>]

\* lines 166-176: the text put in front of str(e)
ErrorLabel(e) ==
    CASE e.kind = "CircularInclude" -> "Circular dependency"
      [] e.kind = "ProfileNotFound" -> "Missing profile"
      [] OTHER -> "Unexpected error"

FailedValidationCounting(e, profile_chain) ==
    [NewValidation EXCEPT
        !.valid = FALSE,
        !.errors = Append(@, [label |-> ErrorLabel(e), error |-> e]),
        !.profile_count = Len(profile_chain)]

\* lines 166-176: one of the except clauses
FailedValidation(e, profile_chain) ==
    [NewValidation EXCEPT
        !.valid = FALSE,
        !.errors = Append(@, [label |-> ErrorLabel(e), error |-> e])]

\* lines 162-164: resolve_hierarchy returned profile_chain
PassedValidation(profile_chain) ==
    [NewValidation EXCEPT
        !.profile_count = Len(profile_chain),
        !.profiles = [i \in 1..Len(profile_chain) |-> profile_chain[i].name]]

\* IncludeResolver.validate_hierarchy, given how its resolve_hierarchy call ended
validate_hierarchy ==
    IF pc = "returned" THEN PassedValidation(chain)
    ELSE FailedValidation(error, chain)

\* validate_hierarchy called directly on the resolver
ValidateHierarchy ==
    /\ Resolved /\ command = <<>> /\ validation = <<>>
    /\ validation' = <<validate_hierarchy>>
    /\ UNCHANGED <<resolverVars, mergerVars, parserVars, command, exitCode>>

\* ---- cli.main ------------------------------------------------------------
\* the subcommands of the argument parser
Subcommands == {"list", "show", "hierarchy", "validate", "cluster", "sync", "env", "node"}

\* what get_cluster_tuned_status knows of the node given to `node`: not among
\* the active profiles, there without an active profile, or there with one
NodeStates == {"unknown", "no_profile", "active"}

Invocation(name, node) == [name |-> name, node |-> node]

\* an invocation without subcommand has args.command = None
NoSubcommand == Invocation("", "")

Invocations ==
    {NoSubcommand}
    \cup {Invocation(name, "") : name \in Subcommands \ {"node"}}
    \cup {Invocation("node", node) : node \in NodeStates}

\* the handler of the invocation calls resolve_hierarchy
CallsResolver(invocation) ==
    \/ invocation.name \in {"show", "hierarchy", "validate"}
    \/ invocation.name = "node" /\ invocation.node = "active"

\* line 498: return 0 if success else 1
ExitCodeOf(success) == IF success THEN 0 ELSE 1

\* main, lines 415-479 and 494-496: the arguments are parsed; without a
\* subcommand the help is printed and main returns 1
Main ==
    /\ pc = "idle" /\ command = <<>>
    /\ \E invocation \in Invocations :
        /\ command' = <<invocation>>
        /\ exitCode' = IF invocation = NoSubcommand THEN <<1>> ELSE <<>>
    /\ UNCHANGED <<resolverVars, mergerVars, parserVars, validation>>

Running(names) == command # <<>> /\ exitCode = <<>> /\ command[1].name \in names

show_merged_profile_unchecked(exception) == ~exception

\* TunedViewer.show_merged_profile, after its resolve_hierarchy call ended:
\* False for both resolver errors and for every other exception (of the
\* resolver, of merge_profiles or of the output), else True
show_merged_profile(exception) == pc = "returned" /\ ~exception

\* `show`
ShowMergedProfile ==
    /\ Running({"show"}) /\ Resolved
    /\ \E exception \in BOOLEAN :
        exitCode' = <<ExitCodeOf(show_merged_profile(exception))>>
    /\ UNCHANGED <<resolverVars, mergerVars, parserVars, command, validation>>

\* `hierarchy`: get_dependency_tree turns both resolver errors into a tree
\* with an 'error' entry (False); any other exception is caught by
\* show_hierarchy (False)
ShowHierarchy ==
    /\ Running({"hierarchy"}) /\ Resolved
    /\ \E exception \in BOOLEAN :
        exitCode' = <<ExitCodeOf(pc = "returned" /\ ~exception)>>
    /\ UNCHANGED <<resolverVars, mergerVars, parserVars, command, validation>>

\* `validate`: validation['valid'], or False when printing the report raised
ValidateProfile ==
    /\ Running({"validate"}) /\ Resolved
    /\ validation' = <<validate_hierarchy>>
    /\ \E exception \in BOOLEAN :
        exitCode' = <<ExitCodeOf(validation'[1].valid /\ ~exception)>>
    /\ UNCHANGED <<resolverVars, mergerVars, parserVars, command>>

\* `node`, lines 277-294: the node is unknown or has no active profile
AnalyzeNodeWithoutProfile ==
    /\ Running({"node"}) /\ command[1].node \in {"unknown", "no_profile"}
    /\ exitCode' = <<ExitCodeOf(FALSE)>>
    /\ UNCHANGED <<resolverVars, mergerVars, parserVars, command, validation>>

\* `node`, lines 296-302: show_merged_profile of the node's active profile
AnalyzeNodeProfile ==
    /\ Running({"node"}) /\ command[1].node = "active" /\ Resolved
    /\ \E exception \in BOOLEAN :
        exitCode' = <<ExitCodeOf(show_merged_profile(exception))>>
    /\ UNCHANGED <<resolverVars, mergerVars, parserVars, command, validation>>

\* `list`, `cluster`, `sync`, `env`: True unless an exception was caught
OtherHandler ==
    /\ Running({"list", "cluster", "sync", "env"})
    /\ \E exception \in BOOLEAN : exitCode' = <<ExitCodeOf(~exception)>>
    /\ UNCHANGED <<resolverVars, mergerVars, parserVars, command, validation>>

InitCli ==
    /\ command = <<>>
    /\ validation = <<>>
    /\ exitCode = <<>>

\* the handler's call of resolve_hierarchy, or a call on the resolver itself
CallResolveHierarchy ==
    /\ command # <<>> => (exitCode = <<>> /\ CallsResolver(command[1]))
    /\ ResolveHierarchy

NextCli ==
    \/ Main
    \/ CallResolveHierarchy
    \/ RaiseCircularInclude
    \/ SkipProcessed
    \/ RaiseProfileNotFound
    \/ RaiseParseError
    \/ ParseProfile
    \/ ExternalInclude
    \/ ProfileInclude
    \/ AppendProfile
    \/ ValidateHierarchy
    \/ ShowMergedProfile
    \/ ShowHierarchy
    \/ ValidateProfile
    \/ AnalyzeNodeWithoutProfile
    \/ AnalyzeNodeProfile
    \/ OtherHandler

(***************************************************************************)
(* Parser (parser.py)                                                      *)
(*                                                                         *)
(* A file is the sequence of its sections in file order, each a header    *)
(* name and the key = value lines below it.                                *)
(***************************************************************************)
MAIN_SECTION == "main"

Section(name, items) == [name |-> name, items |-> items]

\* ConfigParser.read_file with strict=False: a header that names a section
\* read before reopens that section, and a key read twice keeps its last
\* value; config is the dict of sections, each a dict of options
RECURSIVE ReadSections(_, _)
ReadSections(config, text) ==
    IF text = <<>> THEN config
    ELSE ReadSections(SetItem(config, text[1].name,
                              Update(Get(config, text[1].name, <<>>), text[1].items)),
                      Tail(text))

_load_config(text) == ReadSections(<<>>, text)

\* str.strip() for blanks
RECURSIVE LStrip(_)
LStrip(str) ==
    IF str # "" /\ SubSeq(str, 1, 1) = " " THEN LStrip(SubSeq(str, 2, Len(str))) ELSE str

RECURSIVE RStrip(_)
RStrip(str) ==
    IF str # "" /\ SubSeq(str, Len(str), Len(str)) = " "
    THEN RStrip(SubSeq(str, 1, Len(str) - 1)) ELSE str

Strip(str) == LStrip(RStrip(str))

IncludeSeparators == ",;"

IsIncludeSeparator(c) ==
    \E i \in 1..Len(IncludeSeparators) : SubSeq(IncludeSeparators, i, i) = c

\* the pieces of str between separators, token being the piece in progress
RECURSIVE SplitIncludes(_, _)
SplitIncludes(str, token) ==
    IF str = "" THEN <<token>>
    ELSE IF IsIncludeSeparator(SubSeq(str, 1, 1))
         THEN <<token>> \o SplitIncludes(SubSeq(str, 2, Len(str)), "")
         ELSE SplitIncludes(SubSeq(str, 2, Len(str)), token \o SubSeq(str, 1, 1))

\* [inc.strip() for inc in re.split(r'\s*[,;]\s*', value.strip()) if inc.strip()]
IncludeNames(value) ==
    LET includes == SplitIncludes(Strip(value), "")
    IN SelectSeq([i \in 1..Len(includes) |-> Strip(includes[i])], LAMBDA inc : inc # "")

RECURSIVE ParseMainItems(_, _)
ParseMainItems(profile, items) ==
    IF items = <<>> THEN profile
    ELSE ParseMainItems(
             IF items[1][1] = "include"
             THEN [profile EXCEPT !.includes = @ \o IncludeNames(items[1][2])]
             ELSE [profile EXCEPT !.options = SetItem(@, items[1][1], items[1][2])],
             Tail(items))

_parse_main_section(config, profile) ==
    IF ~Has(config, MAIN_SECTION) THEN profile
    ELSE ParseMainItems(profile, Get(config, MAIN_SECTION, <<>>))

_parse_variables_section(config, profile) ==
    IF ~Has(config, VARIABLES_SECTION) THEN profile
    ELSE [profile EXCEPT !.variables = Update(@, Get(config, VARIABLES_SECTION, <<>>))]

RECURSIVE _parse_unit_sections(_, _)
_parse_unit_sections(config, profile) ==
    IF config = <<>> THEN profile
    ELSE _parse_unit_sections(
             Tail(config),
             IF config[1][1] \in {MAIN_SECTION, VARIABLES_SECTION} THEN profile
             ELSE [profile EXCEPT
                     !.units = SetUnit(@, TunedUnit(config[1][1], config[1][2]))])

\* ProfileParser.parse_file for an existing file <profile_name>/tuned.conf
parse_file(profile_name, text) ==
    LET config == _load_config(text)
    IN _parse_unit_sections(config,
           _parse_variables_section(config,
               _parse_main_section(config, TunedProfile(profile_name))))

\* one parse_file call of a run
ParseFile(profile_name, text) ==
    /\ parsed = <<>>
    /\ fileText' = text
    /\ parsed' = <<parse_file(profile_name, text)>>
    /\ UNCHANGED <<resolverVars, mergerVars, cliVars>>

InitParser ==
    /\ fileText = <<>>
    /\ parsed = <<>>

\* files read by parse_file
NetItems ==
    {<<<<"a", "1">>, <<"b", "2">>>>,
     <<<<"b", "3">>, <<"c", "4">>>>,
     <<<<"replace", "true">>, <<"a", "5">>>>}

FileSections ==
    {Section("net", items) : items \in NetItems}
    \cup {Section("disk", <<<<"x", "1">>, <<"x", "2">>>>),
          Section(VARIABLES_SECTION, <<<<"x", "1">>>>),
          Section(MAIN_SECTION, <<<<"include", " a, b ;c,">>, <<"summary", "s">>>>),
          Section(MAIN_SECTION, <<<<"include", "d">>>>)}

FileTexts == UNION {[1..n -> FileSections] : n \in 0..MaxSections}

NextParser ==
    \E profile_name \in {"web", "db"}, text \in FileTexts : ParseFile(profile_name, text)

Init == InitResolver /\ InitMerger /\ InitCli /\ InitParser

Spec == Init /\ [][NextResolver]_vars

SpecCli == Init /\ [][NextCli]_vars

SpecParser == Init /\ [][NextParser]_vars

\* one resolve_hierarchy call, the files it finds possibly unparsable
NextCall == NextResolver \/ RaiseParseError

\* the interpreter keeps executing a call that has started: a running call
\* that can take a step eventually takes one
SpecCall == Init /\ [][NextCall]_vars /\ WF_vars(pc = "running" /\ NextCall)

(***************************************************************************)
(* Documents handed to merge_profiles                                      *)
(***************************************************************************)
\* no item, or one item with the key and one of the values
OptionalItem(key, values) == {<<>>} \cup {<<<<key, v>>>> : v \in values}

Document(name, variables, units, options) ==
    [TunedProfile(name) EXCEPT
        !.variables = variables, !.units = units, !.options = options]

\* ---- documents that differ in name and top-level options ------------------
OptionDicts ==
    {cpu \o summary : cpu \in OptionalItem("cpu", {"1", "2"}),
                      summary \in OptionalItem("summary", {"s"})}

OptionDocuments ==
    {Document(name, <<>>, <<>>, options) :
        name \in {"base", "web", "db"}, options \in OptionDicts}

NextOptions == \E document \in OptionDocuments : MergeProfiles(document)

SpecOptions == Init /\ [][NextOptions]_vars

\* ---- documents that differ in name, variables and the variables unit ------
VariableDicts ==
    {<<>>,
     <<<<"x", "1">>>>, <<<<"x", "2">>>>, <<<<"y", "4">>>>,
     <<<<"x", "3">>, <<"y", "4">>>>, <<<<"y", "5">>, <<"x", "1">>>>}

VariablesUnits ==
    {<<>>,
     <<TunedUnit(VARIABLES_SECTION, <<>>)>>,
     <<TunedUnit(VARIABLES_SECTION, <<<<"replace", "true">>>>)>>}

VariableDocuments ==
    {Document(name, variables, units, <<>>) :
        name \in {"base", "web"}, variables \in VariableDicts, units \in VariablesUnits}

NextVariables == \E document \in VariableDocuments : MergeProfiles(document)

SpecVariables == Init /\ [][NextVariables]_vars

\* ---- documents that differ in name and units ------------------------------
NetUnits ==
    {TunedUnit("net", options) : options \in
        {<<<<"sysctl", "1">>>>,
         <<<<"mtu", "9">>, <<"sysctl", "2">>>>,
         <<<<"drop_sysctl", "">>>>,
         <<<<"drop_sysctl", "">>, <<"sysctl", "3">>>>,
         <<<<"replace", "True">>, <<"mtu", "1">>>>,
         <<<<"replace", "no">>, <<"mtu", "2">>>>}}

ScriptUnits ==
    {TunedUnit(SCRIPT_SECTION, options) : options \in
        {<<<<"script", "echo A">>>>,
         <<<<"script", "echo B">>>>,
         <<<<"replace", "yes">>, <<"script", "echo C">>>>,
         <<<<"script", "echo D">>, <<"drop_script", "">>>>}}

UnitLists ==
    {<<>>}
    \cup {<<unit>> : unit \in NetUnits \cup ScriptUnits}
    \cup {<<TunedUnit("net", <<<<"sysctl", "1">>>>),
            TunedUnit(SCRIPT_SECTION, <<<<"script", "echo A">>>>)>>,
          <<TunedUnit(SCRIPT_SECTION, <<<<"script", "echo B">>>>),
            TunedUnit("net", <<<<"replace", "1">>>>)>>}

UnitDocuments ==
    {Document(name, <<>>, units, <<>>) : name \in {"base", "web"}, units \in UnitLists}

NextUnits == \E document \in UnitDocuments : MergeProfiles(document)

SpecUnits == Init /\ [][NextUnits]_vars

\* ---- documents that differ in the priority, enabled and devices options ---
FieldUnits ==
    {TunedUnit("net", options) : options \in
        {<<>>,
         <<<<"priority", "5">>>>,
         <<<<"priority", "abc">>>>,
         <<<<"drop_priority", "">>>>,
         <<<<"enabled", "false">>>>,
         <<<<"enabled", "Yes">>, <<"priority", "-7">>>>,
         <<<<"drop_enabled", "">>>>,
         <<<<"devices", "eth0">>>>,
         <<<<"drop_devices", "">>>>}}

FieldDocuments ==
    {Document(name, <<>>, <<unit>>, <<>>) : name \in {"web", "db"}, unit \in FieldUnits}

NextFields == \E document \in FieldDocuments : MergeProfiles(document)

SpecFields == Init /\ [][NextFields]_vars

(***************************************************************************)
(* The include graph that the call has read                                *)
(***************************************************************************)
IsExternalEntry(e) == Len(e) >= 1 /\ SubSeq(e, 1, 1) = "/"

\* bare names that profile n includes directly
DirectIncludes(n) ==
    IF n \in DOMAIN files /\ files[n].found
    THEN {e \in Range(files[n].includes) : ~IsExternalEntry(e)}
    ELSE {}

\* names reachable from the names of S by one or more include edges
RECURSIVE IncludedBy(_)
IncludedBy(S) ==
    LET step == S \cup UNION {DirectIncludes(n) : n \in S}
    IN IF step = S THEN S ELSE IncludedBy(step)

TransitiveIncludes(n) == IncludedBy(DirectIncludes(n))

Reachable(n) == {n} \cup TransitiveIncludes(n)

GraphAcyclic == \A n \in DOMAIN files : n \notin TransitiveIncludes(n)

AllLocated == \A n \in DOMAIN files : files[n].found

\* positions of the (non-external) document named n in the chain
PositionsOf(n) == {i \in 1..Len(chain) : ~chain[i].external /\ chain[i].name = n}

PositionOf(n) == CHOOSE i \in PositionsOf(n) : TRUE

\* C1: on an acyclic include graph whose names are all located the call
\* returns; the returned list holds every profile reachable from the root
\* exactly once and nothing else, every profile strictly after all profiles
\* it includes directly or transitively and after its own external include
\* documents, and the root last.
C1_DependencyOrder ==
    /\ pc = "raised" => ~(GraphAcyclic /\ AllLocated)
    /\ pc = "returned" =>
        /\ \A n \in Reachable(root) : Cardinality(PositionsOf(n)) = 1
        /\ \A i \in 1..Len(chain) :
            IF chain[i].external
            THEN \E n \in Reachable(root) :
                    /\ chain[i].name = n \o "_external"
                    /\ i < PositionOf(n)
            ELSE chain[i].name \in Reachable(root)
        /\ \A m \in Reachable(root) : \A n \in TransitiveIncludes(m) :
            PositionOf(n) < PositionOf(m)
        /\ Len(chain) >= 1
        /\ chain[Len(chain)].name = root /\ ~chain[Len(chain)].external

\* a returned call over a graph in which one profile is included by two others
C1_Witness ==
    /\ pc = "returned"
    /\ \E n \in Reachable(root) :
        Cardinality({m \in Reachable(root) : n \in DirectIncludes(m)}) >= 2
    /\ \E n \in Reachable(root) : TransitiveIncludes(n) # DirectIncludes(n)

\* C2: a call entered with a name that is on the active include path raises
\* CircularInclude, and the reported cycle is the path from the first
\* occurrence of the name to its end, followed by the name.
C2_CircularInclude ==
    [][(pc = "running" /\ call # <<>> /\ call[1] \in Range(IncludePath)) =>
        /\ pc' = "raised"
        /\ error'.kind = "CircularInclude"
        /\ \E k \in 1..Len(IncludePath) :
            /\ IncludePath[k] = call[1]
            /\ \A j \in 1..(k - 1) : IncludePath[j] # call[1]
            /\ error'.cycle = SubSeq(IncludePath, k, Len(IncludePath)) \o <<call[1]>>
        /\ error'.cycle[1] = call[1]
        /\ error'.cycle[Len(error'.cycle)] = call[1]
        /\ Len(error'.cycle) >= 2]_vars

\* a cycle that does not contain the requested root was reported
C2_Witness ==
    /\ pc = "raised" /\ error.kind = "CircularInclude"
    /\ Len(error.cycle) >= 3
    /\ root \notin Range(error.cycle)

\* C3: when the locator does not find the name of a call, the call raises
\* ProfileNotFound naming that name and carrying the locator's directories;
\* a returned call has located every name it asked for.
C3_ProfileNotFound ==
    /\ \A n \in DOMAIN files : ~files[n].found =>
        /\ pc = "raised"
        /\ error.kind = "ProfileNotFound"
        /\ error.name = n
        /\ error.searched_dirs = directories
        /\ call = <<n>>
    /\ pc = "returned" => AllLocated

\* the missing profile is an include of a profile that was found
C3_Witness ==
    /\ pc = "raised" /\ error.kind = "ProfileNotFound"
    /\ error.name # root
    /\ \E m \in DOMAIN files : files[m].found /\ error.name \in DirectIncludes(m)

\* ---- the depth-first walk over the include graph read by the call --------
\* A walk state is [seen, out, failure]: the names seen, the names emitted and
\* <<>> or the first failure met.  Includes are visited in declared order, a
\* name is located on entry, before its own includes are expanded.
WalkStart == [seen |-> {}, out |-> <<>>, failure |-> <<>>]

RECURSIVE WalkName(_, _, _), WalkIncludes(_, _, _, _)
WalkName(n, path, st) ==
    IF st.failure # <<>> THEN st
    ELSE IF n \in Range(path)
    THEN [st EXCEPT !.failure = <<[kind |-> "CircularInclude", name |-> n]>>]
    ELSE IF n \in st.seen THEN st
    ELSE IF n \notin DOMAIN files
    THEN [st EXCEPT !.failure = <<[kind |-> "NotVisited", name |-> n]>>]
    ELSE IF ~files[n].found
    THEN [st EXCEPT !.failure = <<[kind |-> "ProfileNotFound", name |-> n]>>]
    ELSE LET after == WalkIncludes(files[n].includes, 1, Append(path, n),
                                   [st EXCEPT !.seen = @ \cup {n}])
         IN IF after.failure # <<>> THEN after
            ELSE [after EXCEPT !.out = Append(@, n)]

WalkIncludes(includes, i, path, st) ==
    IF i > Len(includes) \/ st.failure # <<>> THEN st
    ELSE WalkIncludes(includes, i + 1, path,
                      IF IsExternalEntry(includes[i]) THEN st
                      ELSE WalkName(includes[i], path, st))

Walk == WalkName(root, <<>>, WalkStart)

\* the failure an error stands for
FailureOf(e) ==
    [kind |-> e.kind,
     name |-> IF e.kind = "CircularInclude" THEN e.cycle[Len(e.cycle)] ELSE e.name]

\* C11: resolution is a hard stop.  An error is set exactly when the call has
\* raised; the error raised is the first failure the depth-first walk meets;
\* a raised call returns no list, whatever was emitted before; the raising
\* step emits nothing and visits nothing; and after the raise no include is
\* visited any more.
C11_HardStop ==
    /\ [](error # NoError <=> pc = "raised")
    /\ [](pc = "raised" =>
            /\ ReturnValue = <<>>
            /\ Walk.failure = <<FailureOf(error)>>
            /\ \A n \in DOMAIN files : ~files[n].found => n = error.name)
    /\ [][(pc' = "raised" /\ pc # "raised") =>
            /\ pc = "running"
            /\ UNCHANGED <<chain, processed, stack>>]_vars
    /\ [][pc = "raised" => UNCHANGED resolverVars]_vars

\* the call raised after it had emitted a profile and while a frame still had
\* an include entry it never visited
C11_Witness ==
    /\ pc = "raised"
    /\ chain # <<>>
    /\ \E k \in 1..Len(stack) : stack[k].i <= Len(stack[k].includes)

\* C18: cycle detection is exact.  A CircularInclude error reports a real
\* cycle of bare-name includes that is reachable from the root, so a profile
\* that is only included several times never raises it; when every name
\* visited was located, a raise is a CircularInclude; a call only returns
\* after it has read every profile reachable from the root, and then none of
\* them includes itself directly or transitively; and a running call can
\* always take its next step.
C18_CycleDetectionExact ==
    /\ (pc = "raised" /\ error.kind = "CircularInclude") =>
        LET cycle == error.cycle
        IN /\ Len(cycle) >= 2
           /\ cycle[1] = cycle[Len(cycle)]
           /\ cycle[1] \in Reachable(root)
           /\ \A i \in 1..(Len(cycle) - 1) : cycle[i + 1] \in DirectIncludes(cycle[i])
           /\ cycle[1] \in TransitiveIncludes(cycle[1])
    /\ (pc = "raised" /\ AllLocated) => error.kind = "CircularInclude"
    /\ pc = "returned" =>
        /\ Reachable(root) \subseteq DOMAIN files
        /\ \A n \in Reachable(root) : n \notin TransitiveIncludes(n)
    /\ pc = "running" => ENABLED NextResolver

\* a cycle was reported in a graph in which a profile of the cycle is also
\* included from outside the cycle and was seen before the cycle closed
C18_Witness ==
    /\ pc = "raised" /\ error.kind = "CircularInclude"
    /\ AllLocated
    /\ root \notin Range(error.cycle)
    /\ \E n \in Range(error.cycle) :
        Cardinality({m \in DOMAIN files : n \in DirectIncludes(m)}) >= 2

\* C19: a call entered with a name that is already in the processed set and
\* not on the include path returns at once: nothing is located, parsed,
\* emitted or expanded.  So the locator is asked at most once for each name
\* (exactly once for each name read), each profile is in the chain at most
\* once, and the chain only grows at its end, so that a profile stays where
\* its first visit put it.
C19_VisitedOnce ==
    /\ [][(/\ pc = "running" /\ call # <<>>
            /\ call[1] \in processed
            /\ call[1] \notin Range(IncludePath)) =>
                /\ call' = <<>>
                /\ UNCHANGED <<pc, root, files, processed, chain, stack, error,
                               locateCount>>]_vars
    /\ [](\A n \in ProfileNames :
            /\ locateCount[n] <= 1
            /\ locateCount[n] = 1 <=> n \in DOMAIN files
            /\ Cardinality(PositionsOf(n)) <= 1
            /\ PositionsOf(n) # {} => n \in processed)
    /\ [][Len(chain') >= Len(chain) /\ SubSeq(chain', 1, Len(chain)) = chain]_vars

\* a returned call in which a profile included by two others was emitted
\* before both of them
C19_Witness ==
    /\ pc = "returned"
    /\ \E n \in DOMAIN files : \E m1, m2 \in DOMAIN files :
        /\ n \in DirectIncludes(m1) /\ n \in DirectIncludes(m2)
        /\ locateCount[n] = 1
        /\ PositionsOf(n) # {} /\ PositionsOf(m1) # {} /\ PositionsOf(m2) # {}
        /\ PositionOf(n) < PositionOf(m1)
        /\ PositionOf(m1) < PositionOf(m2)

\* the names of the chain's documents that are not external include documents
RECURSIVE ProfilesOf(_)
ProfilesOf(profile_chain) ==
    IF profile_chain = <<>> THEN <<>>
    ELSE IF profile_chain[1].external THEN ProfilesOf(Tail(profile_chain))
    ELSE <<profile_chain[1].name>> \o ProfilesOf(Tail(profile_chain))

\* the walk is at an absolute-path include entry
AtExternalEntry ==
    /\ pc = "running" /\ call = <<>> /\ stack # <<>>
    /\ Top.i <= Len(Top.includes)
    /\ IsExternalEntry(Top.includes[Top.i])

\* C13: an absolute-path include whose file gives no document never makes
\* the call fail and adds nothing to the chain: the step over such an entry
\* only moves on to the next entry of the same profile.  The rest is resolved
\* as if the entry were absent: a returned chain without its external
\* documents is the output of the depth-first walk over the bare-name
\* includes alone, and holds no external document when no file was readable.
C13_ExternalSkipped ==
    /\ [][(AtExternalEntry /\ ~externals'[Top.includes[Top.i]]) =>
            /\ pc' = "running"
            /\ error' = NoError
            /\ chain' = chain
            /\ stack' = [stack EXCEPT ![Len(stack)].i = @ + 1]
            /\ UNCHANGED <<root, files, processed, call, locateCount>>]_vars
    /\ [](pc = "returned" =>
            /\ Walk.failure = <<>>
            /\ ProfilesOf(chain) = Walk.out
            /\ (\A path \in DOMAIN externals : ~externals[path]) =>
                    \A i \in 1..Len(chain) : ~chain[i].external)
    /\ [](\A path \in DOMAIN externals :
            (~externals[path] /\ error # NoError) => error.kind = "CircularInclude"
                \/ (error.kind = "ProfileNotFound" /\ error.name \in ProfileNames))

\* a call returned although two profiles include an external file that gave no document
C13_Witness ==
    /\ pc = "returned"
    /\ \E path \in DOMAIN externals : ~externals[path]
    /\ Cardinality({n \in DOMAIN files : \E i \in 1..Len(files[n].includes) :
                        IsExternalEntry(files[n].includes[i])}) >= 2
    /\ Len(chain) >= 3

\* C12: validate_hierarchy never raises: however the resolution ended, a
\* report comes back.  In the report valid is false exactly when errors is
\* non-empty; after CircularInclude or ProfileNotFound valid is false, there
\* is one error entry (of that error), profile_count is 0 and profiles is
\* empty; after a successful resolution the report is valid, profiles is the
\* list of the names in resolve order, the root last, and profile_count is
\* its length.
C12_ValidationReport ==
    /\ (Resolved /\ command = <<>> /\ validation = <<>>) => ENABLED ValidateHierarchy
    /\ (Resolved /\ Running({"validate"})) => ENABLED ValidateProfile
    /\ validation # <<>> =>
        LET report == validation[1]
        IN /\ Resolved
           /\ report.valid = FALSE <=> report.errors # <<>>
           /\ (pc = "raised" /\ error.kind \in {"CircularInclude", "ProfileNotFound"}) =>
                /\ report.valid = FALSE
                /\ Len(report.errors) = 1
                /\ report.errors[1].error = error
                /\ report.profile_count = 0
                /\ report.profiles = <<>>
           /\ pc = "returned" =>
                /\ report.valid = TRUE
                /\ Len(report.profiles) = Len(chain)
                /\ \A i \in 1..Len(chain) : report.profiles[i] = chain[i].name
                /\ report.profiles[Len(report.profiles)] = root
                /\ report.profile_count = Len(report.profiles)

\* a report of a resolution that failed on a cycle after profiles were emitted
C12_Witness ==
    /\ validation # <<>>
    /\ pc = "raised" /\ error.kind = "CircularInclude"
    /\ chain # <<>>
    /\ validation[1].profiles = <<>>

\* the handler ran into a failure it reports: a cycle or a missing profile
\* (or any other exception) in its resolve_hierarchy call, or a node that is
\* unknown or has no active profile
ReportedFailure ==
    \/ CallsResolver(command[1]) /\ pc = "raised"
    \/ command[1].name = "node" /\ command[1].node \in {"unknown", "no_profile"}

AsMap(d) == [key \in Keys(d) |-> d[CHOOSE i \in 1..Len(d) : d[i][1] = key][2]]

\* the document the last call appended to the argument list
LastDocument == profiles[Len(profiles)]

\* the accumulator before the last document was folded in
AccBefore == Reduce(SubSeq(profiles, 1, Len(profiles) - 1), TunedProfile("base"))

\* the unit of that name in a document
UnitOf(document, unit_name) ==
    document.units[CHOOSE i \in 1..Len(document.units) :
                        document.units[i].name = unit_name]

HasUnit(document, unit_name) ==
    \E i \in 1..Len(document.units) : document.units[i].name = unit_name

\* C4: the result of a call on a non-empty list carries the name of the last
\* document of the list.
C4_FinalName == profiles # <<>> => merged.name = profiles[Len(profiles)].name

\* three documents, the last named differently from the first two
C4_Witness ==
    /\ Len(profiles) = 3
    /\ profiles[3].name \notin {profiles[1].name, profiles[2].name}
    /\ acc.name # profiles[3].name
    /\ merged.name = profiles[3].name

\* what a merge result holds besides its name
ContentOf(document) ==
    [options |-> document.options, variables |-> document.variables,
     units |-> document.units]

\* the list with its documents named anew
Renamed(profile_list, names) ==
    [i \in 1..Len(profile_list) |-> [profile_list[i] EXCEPT !.name = names[i]]]

\* C22: the options, variables and units of the result do not depend on the
\* names of the documents: the same list under any other names ("base" and
\* the empty string included) merges to the same content.
C22_NameIndependent ==
    profiles # <<>> =>
        \A names \in [1..Len(profiles) -> {"", "base", "web"}] :
            ContentOf(merge_profiles(Renamed(profiles, names))) = ContentOf(merged)

\* C14 as stated: merge_profiles of the empty list returns a document with an
\* empty name, no variables and no units.
C14_EmptyName ==
    profiles = <<>> =>
        /\ merged.name = ""
        /\ merged.variables = <<>>
        /\ merged.units = <<>>

\* C14, amended: merge_profiles of the empty list does not fail and returns
\* a document named "empty" that has no variables, no units, no options and
\* no includes.
C14_EmptyPlaceholder ==
    profiles = <<>> =>
        /\ merged.name = "empty"
        /\ merged.variables = <<>>
        /\ merged.units = <<>>
        /\ merged.options = <<>>
        /\ merged.includes = <<>>

\* the result of the call on the empty list
C14_Witness ==
    /\ profiles = <<>>
    /\ merged.name # ""
    /\ merged.units = <<>>

\* C5: the top-level options of the result have the union of the option keys
\* of all documents, each with the value of the last document defining it.
C5_OptionsUnion ==
    profiles # <<>> =>
        /\ Keys(merged.options) =
            UNION {Keys(profiles[i].options) : i \in 1..Len(profiles)}
        /\ \A i \in 1..Len(profiles) : \A key \in Keys(profiles[i].options) :
            (\A j \in (i + 1)..Len(profiles) : key \notin Keys(profiles[j].options))
                => /\ key \in Keys(merged.options)
                   /\ AsMap(merged.options)[key] = AsMap(profiles[i].options)[key]

\* C6: in a fold step, a unit of the new document (other than the variables
\* unit) that has replace set, or whose name the accumulator has no unit of,
\* is in the result with exactly the new document's options, priority,
\* enabled and devices.
C6_ReplaceCopies ==
    [][profiles' # profiles =>
        \A i \in 1..Len(profiles'[Len(profiles')].units) :
            LET unit == profiles'[Len(profiles')].units[i]
            IN (/\ unit.name # "variables"
                /\ unit.replace \/ ~HasUnit(acc, unit.name)) =>
                    /\ Cardinality({j \in 1..Len(merged'.units) :
                                        merged'.units[j].name = unit.name}) = 1
                    /\ AsMap(UnitOf(merged', unit.name).options) = AsMap(unit.options)
                    /\ UnitOf(merged', unit.name).priority = unit.priority
                    /\ UnitOf(merged', unit.name).enabled = unit.enabled
                    /\ UnitOf(merged', unit.name).devices = unit.devices]_vars

\* a unit with replace set displaced an accumulated unit of the same name that
\* had an option the new unit does not have
C6_Witness ==
    /\ Len(profiles) >= 2
    /\ AccBefore.name \notin {"", "base"}
    /\ \E i \in 1..Len(LastDocument.units) :
        LET unit == LastDocument.units[i]
        IN /\ unit.replace
           /\ HasUnit(AccBefore, unit.name)
           /\ Keys(UnitOf(AccBefore, unit.name).options) \ Keys(unit.options) # {}
           /\ Keys(UnitOf(merged, unit.name).options) = Keys(unit.options)

\* C15: no unit of a merge result (nor of the accumulator) stores an option
\* with the key replace, whether the unit came in as a new unit, as a replace
\* copy or by a field merge.
C15_NoReplaceOption ==
    /\ \A i \in 1..Len(merged.units) : "replace" \notin Keys(merged.units[i].options)
    /\ \A i \in 1..Len(acc.units) : "replace" \notin Keys(acc.units[i].options)

\* a unit with replace set displaced an accumulated unit, and a later unit of
\* the same name was merged into it field by field
C15_Witness ==
    /\ Len(profiles) = 3
    /\ profiles[1].name \notin {"", "base"}
    /\ \A k \in 1..3 : HasUnit(profiles[k], "net")
    /\ UnitOf(profiles[2], "net").replace
    /\ ~UnitOf(profiles[3], "net").replace
    /\ Keys(UnitOf(merged, "net").options) = {"mtu"}
    /\ AsMap(UnitOf(merged, "net").options)["mtu"] = "2"

\* C23: merge_profiles leaves every document of its argument list as it was:
\* name, options, variables and their order, includes, and every unit with
\* its options, replace, priority, enabled and devices.
C23_InputsUnchanged == inputs = profiles

\* the second document's unit was merged field by field, with a drop
\* directive or a script concatenation, into a unit that came from the first
\* document
C23_Witness ==
    /\ Len(profiles) >= 2
    /\ profiles[1].name \notin {"", "base"}
    /\ \E unit_name \in {"net", "script"} :
        /\ HasUnit(profiles[1], unit_name) /\ HasUnit(profiles[2], unit_name)
        /\ ~UnitOf(profiles[2], unit_name).replace
        /\ \/ "drop_sysctl" \in Keys(UnitOf(profiles[2], unit_name).options)
           \/ unit_name = "script"
        /\ UnitOf(merged, unit_name).options # UnitOf(profiles[1], unit_name).options
    /\ inputs = profiles

\* C24: in every unit of a merge result the derived fields agree with the
\* stored options: priority is the integer of the stored priority option, unset
\* when the option is absent or no integer; enabled is the truthiness of the
\* stored enabled option, true when it is absent; devices is the stored
\* devices option, empty when it is absent.
C24_DerivedFields ==
    \A i \in 1..Len(merged.units) :
        LET unit == merged.units[i]
            stored == AsMap(unit.options)
        IN /\ unit.priority =
                IF "priority" \in DOMAIN stored /\ IsIntLiteral(stored["priority"])
                THEN <<IntOf(stored["priority"])>> ELSE <<>>
           /\ unit.enabled =
                IF "enabled" \in DOMAIN stored
                THEN Lower(stored["enabled"]) \in {"true", "1", "yes"} ELSE TRUE
           /\ unit.devices =
                IF "devices" \in DOMAIN stored THEN stored["devices"] ELSE ""

\* the orders in which the items of a dict can be iterated
Orderings(d) ==
    {[i \in 1..Len(d) |-> d[f[i]]] :
        f \in {g \in [1..Len(d) -> 1..Len(d)] :
                \A i, j \in 1..Len(d) : g[i] = g[j] => i = j}}

\* the document with its top-level options, or the options of one of its
\* units, in another order
Reordered(document) ==
    {[document EXCEPT !.options = options] : options \in Orderings(document.options)}
    \cup UNION {{[document EXCEPT !.units[i].options = options] :
                    options \in Orderings(document.units[i].options)} :
                 i \in 1..Len(document.units)}

\* the options of a document and of its units as mappings
OptionMaps(document) ==
    [options |-> AsMap(document.options),
     units |-> [unit_name \in UnitNames(document.units) |->
                    AsMap(UnitOf(document, unit_name).options)]]

\* C25: the merged options, top-level and of every unit, are the same for
\* every order in which the option keys of the last document are iterated.
C25_OptionOrderIndependent ==
    profiles # <<>> =>
        \A document \in Reordered(LastDocument) :
            OptionMaps(_merge_two(AccBefore, document)) = OptionMaps(merged)

\* C26: the merge is an incremental left fold: merging the list is the same,
\* in name, options, variables and units, as merging the result for the list
\* without its last document with that last document.
C26_IncrementalFold ==
    Len(profiles) >= 2 =>
        merged = merge_profiles(<<merge_profiles(SubSeq(profiles, 1, Len(profiles) - 1)),
                                  LastDocument>>)

\* C17: the document merge_profiles returns shares no unit object with any
\* document of the list, whatever the length of the list.
C17_BrandNew ==
    /\ DOMAIN owners = UnitNames(merged.units)
    /\ \A unit_name \in DOMAIN owners : owners[unit_name] = MergerCreated

IsDropKey(key) == Len(key) >= 5 /\ SubSeq(key, 1, 5) = "drop_"

DropTarget(key) == SubSeq(key, 6, Len(key))

\* C7: when a unit of the new document is field-merged into the accumulated
\* unit of the same name (no replace, and the accumulator is not taken for the
\* initial one), then for every key drop_X of the new unit that the
\* new unit does not also set as X the merged unit has neither X nor drop_X;
\* every other key of the new unit has the new unit's value; and accumulated
\* options that the new unit does not mention are kept.  (The script text of
\* a script unit is concatenated rather than set.)
C7_DropDirective ==
    [][profiles' # profiles =>
        \A i \in 1..Len(profiles'[Len(profiles')].units) :
            LET unit == profiles'[Len(profiles')].units[i]
                new == unit.options
            IN (/\ unit.name # "variables"
                /\ ~unit.replace
                /\ acc.name \notin {"", "base"}
                /\ HasUnit(acc, unit.name)) =>
                    LET old == UnitOf(acc, unit.name).options
                        result == UnitOf(merged', unit.name).options
                    IN /\ \A key \in Keys(new) :
                            (IsDropKey(key) /\ DropTarget(key) \notin Keys(new)) =>
                                /\ DropTarget(key) \notin Keys(result)
                                /\ key \notin Keys(result)
                       /\ \A key \in Keys(new) :
                            (/\ ~IsDropKey(key)
                             /\ ("drop_" \o key) \notin Keys(new)
                             /\ ~(key = "script" /\ unit.name = "script")) =>
                                /\ key \in Keys(result)
                                /\ AsMap(result)[key] = AsMap(new)[key]
                       /\ \A key \in Keys(old) :
                            (/\ key \notin Keys(new)
                             /\ ("drop_" \o key) \notin Keys(new)) =>
                                /\ key \in Keys(result)
                                /\ AsMap(result)[key] = AsMap(old)[key]]_vars

\* C20: no unit of a merge result stores an option whose key starts with
\* drop_.
C20_NoDropKeys ==
    \A i \in 1..Len(merged.units) :
        \A key \in Keys(merged.units[i].options) : ~IsDropKey(key)

\* what front insertion of the new items into the old variables gives: the
\* new keys in reverse order of declaration, then the old keys in their old
\* order with the latest values
FrontInserted(old, new) ==
    LET IsNew(item) == item[1] \notin Keys(old)
        added == SelectSeq(new, IsNew)
    IN [i \in 1..Len(added) |-> added[Len(added) + 1 - i]]
       \o [i \in 1..Len(old) |->
            <<old[i][1],
              IF old[i][1] \in Keys(new) THEN AsMap(new)[old[i][1]] ELSE old[i][2]>>]

ReplacesVariables(document) ==
    HasUnit(document, "variables") /\ UnitOf(document, "variables").replace

\* C8: a fold step that merges a further document into the running result
\* (and does not replace the variables) inserts each new variable key at the
\* front and updates each present key in place.
C8_FrontInsertion ==
    [][(/\ profiles' # profiles
        /\ profiles # <<>>
        /\ ~ReplacesVariables(profiles'[Len(profiles')])) =>
            merged'.variables =
                FrontInserted(acc.variables, profiles'[Len(profiles')].variables)]_vars

\* every document folded, the first one included, into an empty variable
\* mapping with the per-key rule
RECURSIVE FoldVariables(_)
FoldVariables(profile_list) ==
    IF profile_list = <<>> THEN <<>>
    ELSE FrontInserted(FoldVariables(SubSeq(profile_list, 1, Len(profile_list) - 1)),
                       profile_list[Len(profile_list)].variables)

\* C21: when no document replaces the variables, the variables of the result
\* and their order are those of folding every document of the list, the first
\* one included, into an empty mapping with the per-key rule (new key to the
\* front, present key updated in place).
C21_VariableOrder ==
    (/\ profiles # <<>>
     /\ \A i \in 1..Len(profiles) : ~ReplacesVariables(profiles[i])) =>
        merged.variables = FoldVariables(profiles)

RECURSIVE ScriptTexts(_)
ScriptTexts(profile_list) ==
    IF profile_list = <<>> THEN ""
    ELSE AsMap(UnitOf(profile_list[1], "script").options)["script"]
            \o ScriptTexts(Tail(profile_list))

\* C9: when every document has a script unit with a script option and without
\* replace (and without a drop_script directive), the script option of the
\* merged script unit is the documents' script texts concatenated in order.
C9_ScriptConcatenation ==
    (/\ profiles # <<>>
     /\ \A i \in 1..Len(profiles) :
            /\ HasUnit(profiles[i], "script")
            /\ "script" \in Keys(UnitOf(profiles[i], "script").options)
            /\ "drop_script" \notin Keys(UnitOf(profiles[i], "script").options)
            /\ ~UnitOf(profiles[i], "script").replace) =>
        /\ HasUnit(merged, "script")
        /\ "script" \in Keys(UnitOf(merged, "script").options)
        /\ AsMap(UnitOf(merged, "script").options)["script"] = ScriptTexts(profiles)

\* C10: after a fold step with a document that has a variables unit with
\* replace set, the variables of the result are exactly that document's.
C10_VariablesReplace ==
    [][(/\ profiles' # profiles
        /\ ReplacesVariables(profiles'[Len(profiles')])) =>
            AsMap(merged'.variables) = AsMap(profiles'[Len(profiles')].variables)]_vars

\* ---- C27 ------------------------------------------------------------------
\* the positions of the file's sections headed `name`
Occurrences(text, name) == {i \in 1..Len(text) : text[i].name = name}

LastOccurrence(text, name) ==
    CHOOSE i \in Occurrences(text, name) : \A j \in Occurrences(text, name) : j <= i

RepeatedUnitSections(text) ==
    {name \in {text[i].name : i \in 1..Len(text)} \ {MAIN_SECTION, VARIABLES_SECTION} :
        Cardinality(Occurrences(text, name)) >= 2}

\* C27: when a file declares a unit section twice, the parsed unit holds
\* exactly the options of the section's last occurrence (what that
\* occurrence standing alone would give), nothing of an earlier one
C27_LastOccurrenceOnly ==
    parsed # <<>> =>
        \A name \in RepeatedUnitSections(fileText) :
            LET unit == GetUnit(parsed[1].units, name)[1]
                last == fileText[LastOccurrence(fileText, name)]
            IN /\ AsMap(unit.options) = AsMap(TunedUnit(name, last.items).options)
               /\ unit.replace = TunedUnit(name, last.items).replace

\* ---- C28 ------------------------------------------------------------------
\* the call has ended: it returned its list, or raised one of `kinds`
EndedWith(kinds) ==
    \/ pc = "returned" /\ ReturnValue = <<chain>>
    \/ pc = "raised" /\ error.kind \in kinds

\* no name was located and expanded more than once
ExpandedAtMostOnce == \A name \in ProfileNames : locateCount[name] <= 1

\* C28 as stated: every started call ends by returning a list or by raising
\* CircularInclude or ProfileNotFound, and expands each name at most once
C28_Terminates ==
    /\ (pc = "running") ~> EndedWith({"CircularInclude", "ProfileNotFound"})
    /\ [](ExpandedAtMostOnce)

\* C28: every started call ends, cyclic include graphs included, by returning
\* a list or by raising CircularInclude, ProfileNotFound or the exception
\* parse_file raised for a located file, and expands each name at most once
C28_TerminatesOrParseFails ==
    /\ (pc = "running") ~> EndedWith({"CircularInclude", "ProfileNotFound", "Exception"})
    /\ [](ExpandedAtMostOnce)

\* a call on a cyclic include graph of three profiles has ended
C28_Witness ==
    /\ pc = "raised" /\ EndedWith({"CircularInclude"})
    /\ Len(error.cycle) >= 3
    /\ Cardinality(processed) >= 2

\* ---- C29 ------------------------------------------------------------------
\* C29: for a non-empty list the counts of get_merge_summary agree with the
\* merge: final_section_count is the number of units of the merged document,
\* and final_section_count + conflicts_resolved = total_input_sections, so
\* the merged document has one unit per distinct unit name of the inputs.
C29_SummaryConsistent ==
    profiles # <<>> =>
        LET summary == get_merge_summary(profiles)
        IN /\ summary.final_section_count = Len(merged.units)
           /\ summary.final_section_count + summary.conflicts_resolved
                  = summary.total_input_sections
====
